---------------------------- MODULE Spec2Model ----------------------------
(***************************************************************************)
(* A model of QMS_app.py: a Streamlit script that registers Complaints,    *)
(* Deviations and Change Requests as rows of three Google Sheets tables,   *)
(* with an optional Drive upload and a password-gated admin listing.       *)
(*                                                                         *)
(* Python strings are sequences of one-character strings, so that          *)
(* startswith, split, int() and the 03d format are computed, not assumed.  *)
(* The clock counts months since January 2000; only strftime("%m") and     *)
(* strftime("%y") of it reach the record ids.                              *)
(***************************************************************************)
EXTENDS Integers, Sequences, FiniteSets, TLC

(***************************************************************************)
(* Bounds of the model.                                                    *)
(***************************************************************************)
\* The first clock value: December 2026 (26 * 12 + 11).
Clock0 == 323
\* How many times the month may change in one behaviour.
MaxTicks == 1
\* How many script runs (user interactions) one behaviour holds, when the
\* sessions' runs interleave and when they follow one another.
MaxRuns == 2
MaxSeqRuns == 3
\* ... when the tables hold a legacy row at the start, and when every form
\* input is tried.
MaxLegacyRuns == 1
MaxFormRuns == 1

(***************************************************************************)
(* Strings.                                                                *)
(***************************************************************************)
Digits == <<"0", "1", "2", "3", "4", "5", "6", "7", "8", "9">>

IsDigit(c) == \E i \in 1..10 : Digits[i] = c

DigitVal(c) == (CHOOSE i \in 1..10 : Digits[i] = c) - 1

IsSpace(c) == c = " "

\* str.strip() of the argument of int(): int() ignores surrounding whitespace.
RECURSIVE LStrip(_)
LStrip(s) == IF s # <<>> /\ IsSpace(Head(s)) THEN LStrip(Tail(s)) ELSE s

RECURSIVE RStrip(_)
RStrip(s) ==
    IF s # <<>> /\ IsSpace(s[Len(s)]) THEN RStrip(SubSeq(s, 1, Len(s) - 1)) ELSE s

Strip(s) == RStrip(LStrip(s))

\* A truthy Python str: `if product and details and contact_number`.
Truthy(s) == Len(s) > 0

\* str.startswith
StartsWith(s, p) == Len(s) >= Len(p) /\ SubSeq(s, 1, Len(p)) = p

\* s.split("-")[-1]: what follows the last "-", the whole string without one.
RECURSIVE LastSegment(_)
LastSegment(s) ==
    IF \A i \in 1..Len(s) : s[i] # "-" THEN s
    ELSE LastSegment(Tail(s))

\* Whether int(s) returns: decimal digits, surrounding whitespace allowed.
IntParses(s) ==
    LET t == Strip(s) IN Len(t) > 0 /\ \A i \in 1..Len(t) : IsDigit(t[i])

RECURSIVE DigitsValue(_)
DigitsValue(t) ==
    IF t = <<>> THEN 0
    ELSE 10 * DigitsValue(SubSeq(t, 1, Len(t) - 1)) + DigitVal(t[Len(t)])

\* int(s) where it returns.
IntOf(s) == DigitsValue(Strip(s))

RECURSIVE NatStr(_)
NatStr(n) ==
    IF n < 10 THEN <<Digits[n + 1]>>
    ELSE NatStr(n \div 10) \o <<Digits[(n % 10) + 1]>>

RECURSIVE ZeroPad(_, _)
ZeroPad(s, w) == IF Len(s) >= w THEN s ELSE ZeroPad(<<"0">> \o s, w)

\* f"{next_serial:03d}": at least three digits, more when the number needs them.
Fmt03d(n) == ZeroPad(NatStr(n), 3)

(***************************************************************************)
(* The clock: datetime.now() as months since January 2000.                 *)
(***************************************************************************)
\* today.strftime("%m")
StrfMonth(clock) == ZeroPad(NatStr((clock % 12) + 1), 2)

\* today.strftime("%y")
StrfYear(clock) == ZeroPad(NatStr((clock \div 12) % 100), 2)

(***************************************************************************)
(* generate_record_id, on the rows get_sheet_values returned.  The result  *)
(* is the id, or the ValueError that int() raises.                         *)
(***************************************************************************)
ValueError == <<"ValueError">>

IdStem(prefix, clock) == prefix \o <<"-">> \o StrfMonth(clock) \o StrfYear(clock)

\* Mutant: the serial of the last row is returned as it is, not incremented.
generate_record_id_no_increment(cached_values, prefix, clock) ==
    LET stem == IdStem(prefix, clock)
    IN  IF Len(cached_values) < 2
        THEN stem \o <<"-">> \o Fmt03d(1)
        ELSE LET last_row == cached_values[Len(cached_values)]
                 last_id  == IF Len(last_row) > 1 THEN last_row[2] ELSE <<>>
             IN  IF StartsWith(last_id, stem)
                 THEN IF IntParses(LastSegment(last_id))
                      THEN stem \o <<"-">> \o Fmt03d(IntOf(LastSegment(last_id)))
                      ELSE ValueError
                 ELSE stem \o <<"-">> \o Fmt03d(1)

\* Mutant: the last id is matched on the prefix alone, whatever its month.
generate_record_id_any_month(cached_values, prefix, clock) ==
    LET stem == IdStem(prefix, clock)
    IN  IF Len(cached_values) < 2
        THEN stem \o <<"-">> \o Fmt03d(1)
        ELSE LET last_row == cached_values[Len(cached_values)]
                 last_id  == IF Len(last_row) > 1 THEN last_row[2] ELSE <<>>
             IN  IF StartsWith(last_id, prefix \o <<"-">>)
                 THEN IF IntParses(LastSegment(last_id))
                      THEN stem \o <<"-">> \o Fmt03d(IntOf(LastSegment(last_id)) + 1)
                      ELSE ValueError
                 ELSE stem \o <<"-">> \o Fmt03d(1)

generate_record_id(cached_values, prefix, clock) ==
    LET stem == IdStem(prefix, clock)
    IN  IF Len(cached_values) < 2
        THEN stem \o <<"-">> \o Fmt03d(1)
        ELSE LET last_row == cached_values[Len(cached_values)]
                 last_id  == IF Len(last_row) > 1 THEN last_row[2] ELSE <<>>
             IN  IF StartsWith(last_id, stem)
                 THEN IF IntParses(LastSegment(last_id))
                      THEN stem \o <<"-">> \o Fmt03d(IntOf(LastSegment(last_id)) + 1)
                      ELSE ValueError
                 ELSE stem \o <<"-">> \o Fmt03d(1)


(***************************************************************************)
(* The three record types: their tables, id prefixes and submit buttons.   *)
(***************************************************************************)
Tables == {"Complaints", "Deviation", "Change Control"}

\* The order in which the script reaches the tabs.
TabOrder == <<"Complaints", "Deviation", "Change Control">>

TabIndex(t) == CHOOSE i \in 1..Len(TabOrder) : TabOrder[i] = t

Prefix(t) ==
    CASE t = "Complaints" -> <<"C">>
      [] t = "Deviation" -> <<"D">>
      [] t = "Change Control" -> <<"C", "C">>

Buttons == Tables \cup {"none", "Access Admin Panel"}

\* The browser sessions that run the script; each run is one user interaction.
Sessions == {"s1", "s2"}

\* A literal whose characters the script never inspects is kept as one element.
AdminSecret == <<"a", "d", "m", "i", "n", "1", "2", "3">>

\* Mutant: the password is compared on its first characters only.
authenticate_prefix(admin_password) == StartsWith(admin_password, AdminSecret)

authenticate(admin_password) == admin_password = AdminSecret

\* The header row of a sheet: the ID is the second column.
Header(t) == << <<"Timestamp">>, <<"ID">> >>

(***************************************************************************)
(* What the user may enter.                                                *)
(***************************************************************************)
TextInputs == {<<>>, <<" ">>, <<"x">>}

SelectInputs(t) ==
    CASE t = "Complaints" -> {<<"High">>}
      [] t = "Deviation" -> {<<"Minor">>}
      [] t = "Change Control" -> {<<"Equipment">>}

OptionalInputs(t) == {<<>>}

\* st.file_uploader: None (the empty name here) or a file with a name.
NoFile == <<>>

FileInputs == {NoFile, <<"a", ".", "p", "d", "f">>}

PasswordInputs ==
    {AdminSecret, <<>>, <<"a", "d", "m", "i", "n", "1", "2", "3", "4">>}

NoInput ==
    [button |-> "none", text1 |-> <<>>, text2 |-> <<>>, text3 |-> <<>>,
     select |-> <<>>, optional |-> <<>>, file |-> NoFile, password |-> <<>>]

Filled == <<"x">>

\* The three text inputs of a form: all filled, or one of them empty or blank.
TextTriples ==
    {x \in TextInputs \X TextInputs \X TextInputs :
        Cardinality({i \in 1..3 : x[i] # Filled}) <= 1}

FormInputs(t) ==
    {[NoInput EXCEPT !.button = t, !.text1 = x[1], !.text2 = x[2], !.text3 = x[3],
                     !.select = sel, !.optional = o, !.file = f] :
        x \in TextTriples,
        sel \in SelectInputs(t), o \in OptionalInputs(t), f \in FileInputs}

AdminInputs ==
    {[NoInput EXCEPT !.button = "Access Admin Panel", !.password = p] :
        p \in PasswordInputs}

Inputs == {NoInput} \cup AdminInputs \cup UNION {FormInputs(t) : t \in Tables}

\* The inputs of the runs that follow one another: every complete form
\* without a file, and the Complaints form with one.
SeqInputs ==
    {in \in Inputs :
        /\ in.button \in Tables
        /\ in.text1 = Filled /\ in.text2 = Filled /\ in.text3 = Filled
        /\ in.file # NoFile => in.button = "Complaints"}

\* The inputs of the interleaved runs: those, a form with a blank field and
\* a file, and the admin panel with the right and with a wrong password.
ConcInputs ==
    SeqInputs \cup
    {in \in Inputs :
        \/ in.button = "Deviation" /\ in.text2 = <<" ">> /\ in.file # NoFile
        \/ in.button = "Access Admin Panel" /\ in.password # <<>>}

\* The condition of each submit handler on its required fields.
RequiredFilled(t, in) ==
    CASE t = "Complaints" ->
            Truthy(in.text1) /\ Truthy(in.text3) /\ Truthy(in.text2)
      [] t = "Deviation" ->
            Truthy(in.text1) /\ Truthy(in.text2) /\ Truthy(in.text3)
      [] t = "Change Control" ->
            Truthy(in.select) /\ Truthy(in.text1) /\ Truthy(in.text2)
            /\ Truthy(in.text3)

\* datetime.now().strftime("%Y-%m-%d %H:%M:%S"), to the month.
Timestamp(clock) == NatStr(2000 + (clock \div 12)) \o <<"-">> \o StrfMonth(clock)

\* Mutant: the row is built before the upload's URL is known.
new_data_no_url(t, clock, id, in, file_url) ==
    CASE t = "Complaints" ->
            <<Timestamp(clock), id, in.text1, in.select, in.text2, in.text3,
              in.optional, <<>> >>
      [] t = "Deviation" ->
            <<Timestamp(clock), id, in.text1, in.select, in.text2, in.text3,
              <<>> >>
      [] t = "Change Control" ->
            <<Timestamp(clock), id, in.select, in.text1, in.text2, in.text3,
              <<>> >>

\* new_data of each handler.  text1..text3 are, in the order of the widgets:
\* product, contact_number, details; department, deviation_description,
\* reported_by; justification, impact_analysis, requested_by.
new_data(t, clock, id, in, file_url) ==
    CASE t = "Complaints" ->
            <<Timestamp(clock), id, in.text1, in.select, in.text2, in.text3,
              in.optional, file_url>>
      [] t = "Deviation" ->
            <<Timestamp(clock), id, in.text1, in.select, in.text2, in.text3,
              file_url>>
      [] t = "Change Control" ->
            <<Timestamp(clock), id, in.select, in.text1, in.text2, in.text3,
              file_url>>

\* The column of a row that holds the attachment URL: the last one.
AttachmentUrl(row) == row[Len(row)]

\* The name given to the uploaded file.
UploadName(id, file) == id \o <<"_">> \o file

\* The id the Drive gives its n-th file, and the URL upload_to_drive returns.
DriveFileId(n) == <<"f">> \o NatStr(n)

DriveUrl(file_id) == <<"https://drive.google.com/file/d/">> \o file_id \o <<"/view">>

\* Mutant: the row is inserted at the top of the sheet.
insert_row_top(values, row) == <<row>> \o values

\* sheet.append_row
append_row(values, row) == Append(values, row)

(***************************************************************************)
(* The state.                                                              *)
(***************************************************************************)
VARIABLES
    clock,      \* datetime.now(), in months
    sheets,     \* the rows of each table, the header row included
    drive,      \* the files created in the Drive folder, in order
    pc,         \* where each session's script run stands
    tab,        \* the tab a running script has reached
    input,      \* the widget values of each session's run
    record_id,  \* complaint_id, deviation_id, change_id of the run
    file_url,   \* file_url of the running handler
    out,        \* what the run has rendered
    log,        \* the uploads and appends the run has made, in order
    read,       \* what generate_record_id read and returned, per table
    runs,       \* the number of runs started
    sheets0     \* the tables as they were at the start

vars == <<clock, sheets, drive, pc, tab, input, record_id, file_url, out, log,
          read, runs, sheets0>>

NoId == <<>>

NoRead == [done |-> FALSE, rows |-> <<>>, clock |-> 0, result |-> NoId]

NoOut ==
    [success |-> NoId, link |-> <<>>, error |-> "", granted |-> FALSE,
     tables |-> [t \in Tables |-> <<>>], info |-> {}, exception |-> ""]

UploadEvent(name, url) ==
    [op |-> "upload", table |-> "", name |-> name, url |-> url, row |-> <<>>,
     at |-> 0, seen |-> NoRead]

AppendEvent(t, row, at, seen) ==
    [op |-> "append", table |-> t, name |-> <<>>, url |-> <<>>, row |-> row,
     at |-> at, seen |-> seen]

\* A row written to a sheet by hand before the application ran.
LegacyRow(id) == << <<"2026">>, id >>

\* Every table holds its header row, or one of them is entirely empty.
FreshSheets ==
    {[t \in Tables |-> IF t = e THEN <<>> ELSE <<Header(t)>>] :
        e \in Tables \cup {"none"}}

\* Ids a last row may hold when the sheet was filled by hand or by an earlier
\* month's runs: well-formed ones of the month before and of this month with
\* small and large serials, and malformed ones.
LegacyIds(t) ==
    LET was == IdStem(Prefix(t), Clock0 - 1)
        now == IdStem(Prefix(t), Clock0)
    IN  {was \o <<"-", "0", "0", "7">>, was \o <<"-", "9", "9", "9">>,
         now \o <<"-", "0", "0", "7">>, now \o <<"-", "9", "9", "9">>,
         now \o <<"-", "1", "0", "0", "0">>,
         <<>>, <<"x">>, now, now \o <<"-">>, now \o <<"-", "x">>,
         now \o <<"-", "0", "0", "7", "x">>, now \o <<"7", "-", "0", "0", "7">>,
         <<"X">> \o now \o <<"-", "0", "0", "7">>}

LegacyRows(t) == {LegacyRow(id) : id \in LegacyIds(t)} \cup {<< <<"2026">> >>}

\* One table holds a legacy last row (with or without a second column); the
\* others hold their header row.
LegacySheets ==
    UNION {{[t \in Tables |-> IF t = l THEN <<Header(t), row>> ELSE <<Header(t)>>] :
              row \in LegacyRows(l)} : l \in Tables}

InitWith(start) ==
    /\ clock = Clock0
    /\ sheets \in start
    /\ sheets0 = sheets
    /\ drive = <<>>
    /\ pc = [s \in Sessions |-> "idle"]
    /\ tab = [s \in Sessions |-> 1]
    /\ input = [s \in Sessions |-> NoInput]
    /\ record_id = [s \in Sessions |-> [t \in Tables |-> NoId]]
    /\ file_url = [s \in Sessions |-> <<>>]
    /\ out = [s \in Sessions |-> NoOut]
    /\ log = [s \in Sessions |-> <<>>]
    /\ read = [s \in Sessions |-> [t \in Tables |-> NoRead]]
    /\ runs = 0

\* The interleaved runs start from tables that hold their header row, or
\* from a Deviation table whose last id has no number.
Init ==
    InitWith({[t \in Tables |-> <<Header(t)>>],
              [t \in Tables |->
                 IF t = "Deviation"
                 THEN <<Header(t),
                        LegacyRow(IdStem(Prefix(t), Clock0) \o <<"-", "x">>)>>
                 ELSE <<Header(t)>>]})

InitSeq == InitWith(FreshSheets)

InitLegacy == InitWith(LegacySheets)

(***************************************************************************)
(* One script run.  Streamlit runs the script top to bottom on every user  *)
(* interaction; at most one button is pressed in a run.  Every remote call *)
(* (a sheet read, an upload, an append) is a step of its own, and may      *)
(* raise; an exception ends the run.  When the script is over its          *)
(* variables are gone; what it rendered stays until the next run.          *)
(***************************************************************************)
\* The month changes.
Tick ==
    /\ clock < Clock0 + MaxTicks
    /\ clock' = clock + 1
    /\ UNCHANGED <<sheets, drive, pc, tab, input, record_id, file_url, out, log,
                   read, runs, sheets0>>

\* A user interaction starts a run with the widget values `in`.
StartRun(s, in, limit) ==
    /\ pc[s] = "idle"
    /\ runs < limit
    /\ runs' = runs + 1
    /\ input' = [input EXCEPT ![s] = in]
    /\ pc' = [pc EXCEPT ![s] = "generate"]
    /\ tab' = [tab EXCEPT ![s] = 1]
    /\ record_id' = [record_id EXCEPT ![s] = [t \in Tables |-> NoId]]
    /\ file_url' = [file_url EXCEPT ![s] = <<>>]
    /\ out' = [out EXCEPT ![s] = NoOut]
    /\ log' = [log EXCEPT ![s] = <<>>]
    /\ read' = [read EXCEPT ![s] = [t \in Tables |-> NoRead]]
    /\ UNCHANGED <<clock, sheets, drive, sheets0>>

\* The variables of a script that is over.
DropLocals(s) ==
    /\ tab' = [tab EXCEPT ![s] = 1]
    /\ record_id' = [record_id EXCEPT ![s] = [t \in Tables |-> NoId]]
    /\ file_url' = [file_url EXCEPT ![s] = <<>>]

\* An unhandled exception: Streamlit shows it and the run is over.
Raise(s, exception) ==
    /\ pc' = [pc EXCEPT ![s] = "idle"]
    /\ out' = [out EXCEPT ![s].exception = exception]
    /\ DropLocals(s)

\* Where the script goes after the tab it is in.
AfterTab(s) == IF tab[s] < Len(TabOrder) THEN "generate" ELSE "admin"

\* Mutant: the id is generated again from the table when it is used.
RowIdFresh(s, t) == generate_record_id(sheets[t], Prefix(t), clock)

\* The id the handler writes into the row and into the file name.
RowId(s, t) == record_id[s][t]

\* Mutant: the exception is caught and the handler goes on without a URL.
UploadFailsProceed(s) ==
    /\ pc' = [pc EXCEPT ![s] = "append"]
    /\ file_url' = [file_url EXCEPT ![s] = <<>>]
    /\ UNCHANGED <<out, tab, record_id, read, log, sheets>>

\* upload_to_drive raised: nothing catches it.
UploadFails(s) ==
    /\ Raise(s, "UploadError")
    /\ read' = [read EXCEPT ![s] = [t \in Tables |-> NoRead]]
    /\ UNCHANGED <<log, sheets>>

\* generate_record_id at the top of a tab, then the tab's submit button.
GenerateId(s) ==
    /\ pc[s] = "generate"
    /\ LET t    == TabOrder[tab[s]]
           id   == generate_record_id(sheets[t], Prefix(t), clock)
           seen == [done |-> TRUE, rows |-> sheets[t], clock |-> clock,
                    result |-> id]
       IN  \/ \* sheet.get_all_values() raised
              /\ Raise(s, "StoreReadError")
              /\ read' = [read EXCEPT ![s] = [x \in Tables |-> NoRead]]
           \/ \* int() raised; what was read stays with the traceback
              /\ id = ValueError
              /\ Raise(s, "ValueError")
              /\ read' = [read EXCEPT ![s] =
                            [x \in Tables |-> IF x = t THEN seen ELSE NoRead]]
           \/ \* the id is there; the button of this tab was not pressed
              /\ id # ValueError
              /\ input[s].button # t
              /\ read' = [read EXCEPT ![s][t] = seen]
              /\ record_id' = [record_id EXCEPT ![s][t] = id]
              /\ pc' = [pc EXCEPT ![s] = AfterTab(s)]
              /\ tab' = [tab EXCEPT ![s] = @ + 1]
              /\ UNCHANGED <<file_url, out>>
           \/ \* pressed, a required field is not filled
              /\ id # ValueError
              /\ input[s].button = t
              /\ ~RequiredFilled(t, input[s])
              /\ read' = [read EXCEPT ![s][t] = seen]
              /\ record_id' = [record_id EXCEPT ![s][t] = id]
              /\ out' = [out EXCEPT ![s].error = "required"]
              /\ pc' = [pc EXCEPT ![s] = AfterTab(s)]
              /\ tab' = [tab EXCEPT ![s] = @ + 1]
              /\ UNCHANGED file_url
           \/ \* pressed and filled: on to the upload, or to the append
              /\ id # ValueError
              /\ input[s].button = t
              /\ RequiredFilled(t, input[s])
              /\ read' = [read EXCEPT ![s][t] = seen]
              /\ record_id' = [record_id EXCEPT ![s][t] = id]
              /\ file_url' = [file_url EXCEPT ![s] = <<>>]
              /\ pc' = [pc EXCEPT ![s] =
                          IF input[s].file # NoFile THEN "upload" ELSE "append"]
              /\ UNCHANGED <<tab, out>>
    /\ UNCHANGED <<clock, sheets, drive, input, log, runs, sheets0>>

\* upload_to_drive(uploaded_file, f"{id}_{uploaded_file.name}")
Upload(s) ==
    /\ pc[s] = "upload"
    /\ LET t    == TabOrder[tab[s]]
           name == UploadName(RowId(s, t), input[s].file)
           url  == DriveUrl(DriveFileId(Len(drive) + 1))
       IN  \/ /\ drive' = Append(drive, [name |-> name,
                                         id |-> DriveFileId(Len(drive) + 1)])
              /\ file_url' = [file_url EXCEPT ![s] = url]
              /\ log' = [log EXCEPT ![s] = Append(@, UploadEvent(name, url))]
              /\ pc' = [pc EXCEPT ![s] = "append"]
              /\ UNCHANGED <<tab, out, record_id, read, sheets>>
           \/ /\ UploadFails(s)
              /\ UNCHANGED drive
    /\ UNCHANGED <<clock, input, runs, sheets0>>

\* new_data, sheet.append_row(new_data), st.success and the download link.
AppendRow(s) ==
    /\ pc[s] = "append"
    /\ LET t   == TabOrder[tab[s]]
           row == new_data(t, clock, RowId(s, t), input[s], file_url[s])
       IN  \/ /\ sheets' = [sheets EXCEPT ![t] = append_row(@, row)]
              /\ log' = [log EXCEPT ![s] =
                           Append(@, AppendEvent(t, row, Len(sheets[t]) + 1,
                                                 read[s][t]))]
              /\ out' = [out EXCEPT ![s].success = RowId(s, t),
                                    ![s].link = file_url[s]]
              /\ pc' = [pc EXCEPT ![s] = AfterTab(s)]
              /\ tab' = [tab EXCEPT ![s] = @ + 1]
              /\ UNCHANGED <<record_id, file_url, read>>
           \/ \* append_row raised
              /\ Raise(s, "StoreWriteError")
              /\ read' = [read EXCEPT ![s] = [x \in Tables |-> NoRead]]
              /\ UNCHANGED <<sheets, log>>
    /\ UNCHANGED <<clock, drive, input, runs, sheets0>>

\* The admin tab: the password, then every table read and listed.  The
\* script ends here.
AdminView(s) ==
    /\ pc[s] = "admin"
    /\ pc' = [pc EXCEPT ![s] = "idle"]
    /\ DropLocals(s)
    /\ read' = [read EXCEPT ![s] = [x \in Tables |-> NoRead]]
    /\ \/ \* the admin button was not pressed
          /\ input[s].button # "Access Admin Panel"
          /\ UNCHANGED out
       \/ /\ input[s].button = "Access Admin Panel"
          /\ authenticate(input[s].password)
          /\ out' = [out EXCEPT
                ![s].granted = TRUE,
                ![s].tables = [t \in Tables |->
                                 IF Len(sheets[t]) > 1 THEN sheets[t] ELSE <<>>],
                ![s].info = {t \in Tables : ~(Len(sheets[t]) > 1)}]
       \/ \* granted, and a sheet read raised
          /\ input[s].button = "Access Admin Panel"
          /\ authenticate(input[s].password)
          /\ out' = [out EXCEPT ![s].granted = TRUE,
                                ![s].exception = "StoreReadError"]
       \/ /\ input[s].button = "Access Admin Panel"
          /\ ~authenticate(input[s].password)
          /\ out' = [out EXCEPT ![s].error = "denied"]
    /\ UNCHANGED <<clock, sheets, drive, input, log, runs, sheets0>>

\* The month changes while no run is under way.
TickIdle == Tick /\ \A s \in Sessions : pc[s] = "idle"

\* The sessions' runs interleave in any way.  The month changes between
\* runs here; it changes in the middle of a run in the specifications below.
Next ==
    \/ TickIdle
    \/ \E s \in Sessions, in \in ConcInputs : StartRun(s, in, MaxRuns)
    \/ \E s \in Sessions : GenerateId(s)
    \/ \E s \in Sessions : Upload(s)
    \/ \E s \in Sessions : AppendRow(s)
    \/ \E s \in Sessions : AdminView(s)

Spec == Init /\ [][Next]_vars

\* One session, one run at a time: each run ends before the next starts.
Writer == "s1"

Run(ins, limit) ==
    \/ Tick
    \/ \E in \in ins : StartRun(Writer, in, limit)
    \/ GenerateId(Writer)
    \/ Upload(Writer)
    \/ AppendRow(Writer)
    \/ AdminView(Writer)

NextSeq == Run(SeqInputs, MaxSeqRuns)

SpecSeq == InitSeq /\ [][NextSeq]_vars

\* ... from tables that hold a legacy row.
NextLegacy == Run(SeqInputs \cup {NoInput}, MaxLegacyRuns)

SpecLegacy == InitLegacy /\ [][NextLegacy]_vars

\* ... with any of the inputs.
NextForms == Run(Inputs, MaxFormRuns)

SpecForms == Init /\ [][NextForms]_vars

(***************************************************************************)
(* What the claims speak of.                                               *)
(***************************************************************************)
\* The rows the application appended to a table.
Appended(t) == (Len(sheets0[t]) + 1)..Len(sheets[t])

IdOf(row) == row[2]

\* The append events of a run.
Appends(s) == {k \in 1..Len(log[s]) : log[s][k].op = "append"}

Uploads(s) == {k \in 1..Len(log[s]) : log[s][k].op = "upload"}

AllDigits(x) == \A i \in 1..Len(x) : IsDigit(x[i])

\* prefix-MMYY-serial: four digits, then a serial of one digit or more.
WellFormed(id, prefix) ==
    LET n == Len(prefix)
    IN  /\ Len(id) >= n + 7
        /\ SubSeq(id, 1, n + 1) = prefix \o <<"-">>
        /\ AllDigits(SubSeq(id, n + 2, n + 5))
        /\ id[n + 6] = "-"
        /\ AllDigits(SubSeq(id, n + 7, Len(id)))

\* The MMYY of a well-formed id.
MonthYearOf(id, prefix) == SubSeq(id, Len(prefix) + 2, Len(prefix) + 5)

\* The id of the last row of what was read, as the generator takes it.
LastIdOf(rows) ==
    IF Len(rows[Len(rows)]) > 1 THEN rows[Len(rows)][2] ELSE <<>>

First(prefix, c) == IdStem(prefix, c) \o <<"-", "0", "0", "1">>

\* A required field of the pressed form is empty or holds whitespace only.
IsBlank(x) == \A i \in 1..Len(x) : x[i] = " "

RequiredOf(t, in) ==
    IF t = "Change Control" THEN {in.select, in.text1, in.text2, in.text3}
    ELSE {in.text1, in.text2, in.text3}

SomeRequiredBlank(t, in) == \E x \in RequiredOf(t, in) : IsBlank(x)

NoRequiredEmpty(t, in) == \A x \in RequiredOf(t, in) : x # <<>>

\* The handler of the pressed button has returned in the run of s.
HandlerReturned(s) ==
    /\ input[s].button \in Tables
    /\ \/ pc[s] # "idle" /\ tab[s] > TabIndex(input[s].button)
       \/ pc[s] = "idle" /\ out[s].exception = ""

(***************************************************************************)
(* The claims.                                                             *)
(***************************************************************************)
\* C1: with one run after the other and a table that held only its header
\* row at the start, the k-th row appended with the ids of one month carries
\* serial k of that month: 001, 002, ... with no gap and no repeat.
C1_SerialsContiguous ==
    \A t \in Tables :
        sheets0[t] = <<Header(t)>> =>
            \A i \in Appended(t) :
                \E c \in Clock0..(Clock0 + MaxTicks) :
                    LET stem == IdStem(Prefix(t), c) \o <<"-">>
                        k == Cardinality({j \in Appended(t) :
                                 j <= i /\ StartsWith(IdOf(sheets[t][j]), stem)})
                    IN  IdOf(sheets[t][i]) = stem \o Fmt03d(k)

\* A table that started with its header row holds 001 of the first month,
\* then 001 and 002 of the next.
C1_Witness ==
    \E t \in Tables :
        /\ sheets0[t] = <<Header(t)>>
        /\ Len(sheets[t]) = 4
        /\ IdOf(sheets[t][2]) = First(Prefix(t), Clock0)
        /\ IdOf(sheets[t][3]) = First(Prefix(t), Clock0 + 1)
        /\ IdOf(sheets[t][4]) =
              IdStem(Prefix(t), Clock0 + 1) \o <<"-", "0", "0", "2">>

\* C2: with one run after the other and a table that held no data row at
\* the start (its header row only, or nothing at all), no two rows that were
\* appended carry the same id.
C2_IdsUnique ==
    \A t \in Tables :
        (sheets0[t] = <<>> \/ sheets0[t] = <<Header(t)>>) =>
            \A i, j \in Appended(t) :
                i # j => IdOf(sheets[t][i]) # IdOf(sheets[t][j])

\* C3: a submit with a required field empty or blank reports the missing
\* field and uploads and appends nothing, with or without a file.
C3_BlankRejected ==
    \A s \in Sessions :
        (input[s].button \in Tables
         /\ SomeRequiredBlank(input[s].button, input[s])) =>
            /\ log[s] = <<>>
            /\ out[s].success = NoId
            /\ HandlerReturned(s) => out[s].error = "required"

\* C4: a submit with every required field filled and a file attached makes
\* one upload and then one append to the table of its form; the row's last
\* column is the URL the upload returned, the row's id is the one in the
\* uploaded file's name, and the handler returns only after both.
C4_UploadThenAppend ==
    \A s \in Sessions :
        LET in == input[s]
            t  == in.button
            up == log[s][1]
            ap == log[s][2]
        IN  (t \in Tables /\ NoRequiredEmpty(t, in) /\ in.file # NoFile) =>
                /\ Len(log[s]) <= 2
                /\ Len(log[s]) >= 1 =>
                      /\ up.op = "upload"
                      /\ \E n \in 1..Len(drive) :
                            /\ drive[n].name = up.name
                            /\ up.url = DriveUrl(drive[n].id)
                /\ Len(log[s]) = 2 =>
                      /\ ap.op = "append" /\ ap.table = t
                      /\ sheets[t][ap.at] = ap.row
                      /\ AttachmentUrl(ap.row) = up.url
                      /\ up.name = IdOf(ap.row) \o <<"_">> \o in.file
                /\ (HandlerReturned(s) \/ out[s].success # NoId) =>
                      /\ Len(log[s]) = 2
                      /\ out[s].success = IdOf(ap.row)
                      /\ out[s].link = up.url

\* A run with a file has uploaded, appended and reported success.
C4_Witness ==
    \E s \in Sessions :
        /\ input[s].file # NoFile
        /\ Len(log[s]) = 2
        /\ out[s].success # NoId
        /\ out[s].link # <<>>

\* C5: when the table holds a data row and the id of its last row is
\* malformed (no second column, empty, not prefix-MMYY-serial), the generator
\* returns serial 001 of the current month and does not fail.
C5_MalformedRestarts ==
    \A s \in Sessions, t \in Tables :
        LET r == read[s][t]
        IN  (r.done /\ Len(r.rows) >= 2
             /\ ~WellFormed(LastIdOf(r.rows), Prefix(t))) =>
                r.result = First(Prefix(t), r.clock)

\* C6: two sessions that read the same rows of a table in the same month
\* and then both append have both their rows in the table, at two places
\* and with one id.
C6_StaleReadDuplicates ==
    \A s1, s2 \in Sessions :
        s1 # s2 =>
            \A k1 \in Appends(s1), k2 \in Appends(s2) :
                LET a == log[s1][k1]
                    b == log[s2][k2]
                IN  (a.table = b.table /\ a.seen.done /\ b.seen.done
                     /\ a.seen.rows = b.seen.rows
                     /\ a.seen.clock = b.seen.clock) =>
                        /\ a.at # b.at
                        /\ sheets[a.table][a.at] = a.row
                        /\ sheets[b.table][b.at] = b.row
                        /\ IdOf(a.row) = IdOf(b.row)

\* Two rows appended to one table carry the same id.
C6_Witness ==
    \E t \in Tables, s1, s2 \in Sessions :
        /\ s1 # s2
        /\ sheets0[t] = <<Header(t)>>
        /\ \E k1 \in Appends(s1), k2 \in Appends(s2) :
              /\ log[s1][k1].table = t /\ log[s2][k2].table = t
              /\ log[s1][k1].seen.rows = log[s2][k2].seen.rows
        /\ \E i, j \in Appended(t) :
              i # j /\ IdOf(sheets[t][i]) = IdOf(sheets[t][j])

\* C7: when the upload of an attached file fails the run is over: it has
\* appended nothing and reported no success; and no run with a file
\* attached appends a row whose attachment URL is empty.
C7_UploadFailureAborts ==
    \A s \in Sessions :
        /\ out[s].exception = "UploadError" =>
              /\ pc[s] = "idle"
              /\ Appends(s) = {}
              /\ out[s].success = NoId
        /\ (input[s].button \in Tables /\ input[s].file # NoFile) =>
              \A k \in Appends(s) : AttachmentUrl(log[s][k].row) # <<>>

\* An upload has failed while a file was attached to a complete form.
C7_Witness ==
    \E s \in Sessions :
        /\ out[s].exception = "UploadError"
        /\ input[s].file # NoFile

\* C8: when the last id read is well-formed and of another month than the
\* current one, the generator returns serial 001 of the current month,
\* whatever the last serial was, and a row appended after such a read
\* carries that id.
C8_MonthChangeRestarts ==
    \A s \in Sessions :
        /\ \A t \in Tables :
              LET r == read[s][t]
              IN  (r.done /\ Len(r.rows) >= 2
                   /\ WellFormed(LastIdOf(r.rows), Prefix(t))
                   /\ MonthYearOf(LastIdOf(r.rows), Prefix(t))
                         # StrfMonth(r.clock) \o StrfYear(r.clock)) =>
                      r.result = First(Prefix(t), r.clock)
        /\ \A k \in Appends(s) :
              LET e == log[s][k]
                  p == Prefix(e.table)
              IN  (e.seen.done /\ Len(e.seen.rows) >= 2
                   /\ WellFormed(LastIdOf(e.seen.rows), p)
                   /\ MonthYearOf(LastIdOf(e.seen.rows), p)
                         # StrfMonth(e.seen.clock) \o StrfYear(e.seen.clock)) =>
                      /\ IdOf(e.row) = First(p, e.seen.clock)
                      /\ sheets[e.table][e.at] = e.row

\* A row with serial 001 was appended after a row of the month before whose
\* serial was 999.
C8_Witness ==
    \E s \in Sessions : \E k \in Appends(s) :
        LET e == log[s][k]
            p == Prefix(e.table)
        IN  /\ Len(e.seen.rows) >= 2
            /\ LastIdOf(e.seen.rows) =
                  IdStem(p, Clock0 - 1) \o <<"-", "9", "9", "9">>
            /\ IdOf(sheets[e.table][e.at]) = First(p, e.seen.clock)

\* A step leaves the three tables as they are, or adds one row at the end
\* of the table of the form whose button the stepping session pressed.
C9_AppendOnlyStep ==
    \/ sheets' = sheets
    \/ \E t \in Tables, s \in Sessions :
          /\ pc[s] = "append" /\ input[s].button = t
          /\ Len(sheets'[t]) = Len(sheets[t]) + 1
          /\ SubSeq(sheets'[t], 1, Len(sheets[t])) = sheets[t]
          /\ \A u \in Tables \ {t} : sheets'[u] = sheets[u]
          /\ Appends(s) = {}

\* What a table held at the start is a prefix of what it holds; a run has
\* appended at most once, and only when a form's button was pressed.
C9_StartKept ==
    \A t \in Tables :
        /\ Len(sheets[t]) >= Len(sheets0[t])
        /\ SubSeq(sheets[t], 1, Len(sheets0[t])) = sheets0[t]
        /\ \A s \in Sessions :
              /\ Cardinality(Appends(s)) <= 1
              /\ input[s].button \notin Tables => Appends(s) = {}

\* C9: the application is append-only.  Every step leaves the three tables
\* as they are or adds one row at the end of one table, that of the submitted
\* form; no run appends twice, the admin panel never appends, and what a
\* table held at the start stays, unchanged, at its top.
C9_AppendOnly == []C9_StartKept /\ [][C9_AppendOnlyStep]_vars

\* A table has grown and the admin panel has listed it.
C9_Witness ==
    \E t \in Tables, s \in Sessions :
        /\ Len(sheets[t]) > Len(sheets0[t])
        /\ out[s].granted
        /\ out[s].tables[t] = sheets[t]

\* C10: an admin access with a password other than the secret is denied and
\* lists no table; tables are listed only when the password is the secret;
\* an admin access appends nothing.
C10_AdminGate ==
    \A s \in Sessions :
        LET in == input[s]
        IN  /\ (in.button = "Access Admin Panel" /\ in.password # AdminSecret) =>
                  /\ ~out[s].granted
                  /\ \A t \in Tables : out[s].tables[t] = <<>>
                  /\ out[s].info = {}
                  /\ (pc[s] = "idle" /\ out[s].exception = "") =>
                        out[s].error = "denied"
            /\ (out[s].granted \/ \E t \in Tables : out[s].tables[t] # <<>>) =>
                  in.button = "Access Admin Panel" /\ in.password = AdminSecret
            /\ in.button = "Access Admin Panel" => log[s] = <<>>

\* An access with a wrong password was denied while a table held a record.
C10_Witness ==
    \E s \in Sessions :
        /\ input[s].password # AdminSecret
        /\ out[s].error = "denied"
        /\ \E t \in Tables : Len(sheets[t]) > 1

=============================================================================
